---- MODULE Spec2Model ----
(***************************************************************************)
(* balancebeam (proj-2): a reverse-proxy load balancer.                    *)
(*                                                                         *)
(* The model follows src/proj-2/balancebeam/src/main.rs: one task per      *)
(* accepted connection (handle_connection), the active health checker      *)
(* (active_health_check / filter_alive / is_alive), the counter reset      *)
(* timer (requests_counter_timer), and the shared ProxyState with its      *)
(* three locks.  Every await point of the source that touches shared state *)
(* is a separate step; purely local continuations are part of the step     *)
(* that precedes them.                                                     *)
(***************************************************************************)
EXTENDS Integers, Sequences, FiniteSets, TLC

\* ---------------------------------------------------------------- bounds
\* Connection tasks that exist at the same time (a finished task's slot is
\* taken by the next accepted connection, so sessions are unbounded in number).
MaxSessions == 2
\* Requests one session reads from its client before the client hangs up.
MaxRequests == 2
\* Largest --max-requests-per-minute the model configures (0 = unlimited).
MaxThreshold == 1

\* ---------------------------------------------------------- configuration
\* options.upstream: the configured upstream addresses, pairwise distinct.
Upstreams == <<"A", "B">>
\* Peer IPs of the clients that connect.
ClientIPs == {"c1", "c2"}

Addrs == {Upstreams[i] : i \in 1..Len(Upstreams)}
Sessions == 1..MaxSessions
\* Lock holders: 0 = nobody, a session number, or the health checker.
NoTask == 0
HC == MaxSessions + 1
\* The admission check is not run for a counter beyond this value.
MaxCount == MaxThreshold + 1

\* How an upstream behaves at the moment: "ok" accepts connections and
\* answers 200; "bad" accepts connections and answers with a non-200
\* status; "refuse" refuses connections and fails established ones.
Modes == {"ok", "bad", "refuse"}
Reachability == {"ok", "refuse"}
\* The ways a probe can fail, one mode each: on top of "bad" and "refuse",
\* "reset" accepts connections and fails every write to them, "mute" takes
\* the request and sends nothing that parses as a response.
ProbeModes == Modes \cup {"reset", "mute"}

VARIABLES
    main_pc,                  \* main: its position, or how the process ended
    options_upstream,         \* options.upstream as parsed from the command line
    max_requests_per_minute,  \* ProxyState.max_requests_per_minute
    upstream_addresses,       \* ProxyState.upstream_addresses (Vec, "alive")
    dead_addresses,           \* ProxyState.dead_addresses (Vec, "dead")
    requests_counter,         \* ProxyState.requests_counter (HashMap)
    upstream_lock,            \* RwLock of upstream_addresses: [writer, readers]
    dead_lock,                \* RwLock of dead_addresses: the writer
    counter_lock,             \* Mutex of requests_counter: the holder
    pc,                       \* per session: position in handle_connection
    client_ip,                \* per session: client_conn.peer_addr().ip()
    sel,                      \* per session: (idx, ip) of get_random_upstream
    upstream_conn,            \* per session: address of its upstream socket
    read_result,              \* per session: what request::read_from_stream returned
    client_rx,                \* per session: responses written to the client
    upstream_tx,              \* per session: requests written to the upstream
    hc_pc,                    \* health checker: position in filter_alive
    hc_iter,                  \* filter_alive: addresses still to probe
    hc_out,                   \* filter_alive: addresses collected as alive
    hc_tx,                    \* filter_alive: probe requests written in this pass
    mode,                     \* environment: behaviour of each upstream
    window,                   \* history: per client IP, the well-formed requests
                              \* that reached the admission check since the
                              \* last reset of the counters
    sent                      \* history: per client IP, the requests written
                              \* to an upstream since the last reset of the
                              \* counters (kept for the clients in its domain)

vars == <<main_pc, options_upstream, max_requests_per_minute, upstream_addresses, dead_addresses,
          requests_counter, upstream_lock, dead_lock, counter_lock, pc,
          client_ip, sel, upstream_conn, read_result, client_rx, upstream_tx,
          hc_pc, hc_iter, hc_out, hc_tx, mode, window, sent>>

process == <<main_pc, options_upstream, max_requests_per_minute>>
shared == <<upstream_addresses, dead_addresses, upstream_lock, dead_lock>>
limiter == <<requests_counter, counter_lock, window, sent>>
checker == <<hc_pc, hc_iter, hc_out, hc_tx>>
session == <<pc, client_ip, sel, upstream_conn, read_result, client_rx,
             upstream_tx>>

\* ------------------------------------------------------------- helpers
Range(q) == {q[i] : i \in 1..Len(q)}

NoSel == <<0, "">>
NoResult == [kind |-> "", bytes |-> 0]

\* Vec::swap_remove(idx), idx counted from 0: the last element takes the
\* place of the removed one.
SwapRemove(v, idx) ==
    LET last == v[Len(v)]
        cut == SubSeq(v, 1, Len(v) - 1)
    IN  IF idx + 1 = Len(v) THEN cut ELSE [cut EXCEPT ![idx + 1] = last]

\* Iterator::filter over a Vec, keeping the order.
RECURSIVE FilterNotIn(_, _)
FilterNotIn(v, set) ==
    IF v = <<>> THEN <<>>
    ELSE IF Head(v) \in set THEN FilterNotIn(Tail(v), set)
         ELSE <<Head(v)>> \o FilterNotIn(Tail(v), set)

\* response::make_http_error(status): a response the proxy originates.
make_http_error(status) == [status |-> status, origin |-> "proxy", re |-> 0]

\* request::extend_header_value(&mut request, "x-forwarded-for", &client_ip)
extend_header_value(req, ip) == [req EXCEPT !.xff = Append(req.xff, ip)]

ErrorStatusAll400(error) == IF error = "ConnectionError" THEN 503 ELSE 400

\* The status answered for an error of request::read_from_stream.
ErrorStatus(error) ==
    CASE error \in {"IncompleteRequest", "MalformedRequest",
                    "InvalidContentLength", "ContentLengthMismatch"} -> 400
      [] error = "RequestBodyTooLarge" -> 413
      [] error = "ConnectionError" -> 503

\* HashMap::entry(key).or_insert(0), then *count += 1.
Count(map, key) == IF key \in DOMAIN map THEN map[key] ELSE 0

IncrementInsert(map, key) ==
    [k \in DOMAIN map \cup {key} |-> IF k = key THEN 1 ELSE map[k]]

Increment(map, key) ==
    [k \in DOMAIN map \cup {key} |-> IF k = key THEN Count(map, key) + 1 ELSE map[k]]

OverLimitFromThreshold(count, max) == count >= max

OverLimitByTwo(count, max) == count > max + 1

\* The admission test of handle_connection on the incremented counter.
OverLimit(count, max) == count > max

\* ---------------------------------------------------------------- Init
\* No connection accepted, no lock held, nothing counted.
Idle ==
    /\ dead_addresses = <<>>
    /\ requests_counter = <<>>
    /\ upstream_lock = [writer |-> NoTask, readers |-> {}]
    /\ dead_lock = NoTask
    /\ counter_lock = NoTask
    /\ pc = [s \in Sessions |-> "closed"]
    /\ client_ip = [s \in Sessions |-> ""]
    /\ sel = [s \in Sessions |-> NoSel]
    /\ upstream_conn = [s \in Sessions |-> ""]
    /\ read_result = [s \in Sessions |-> NoResult]
    /\ client_rx = [s \in Sessions |-> <<>>]
    /\ upstream_tx = [s \in Sessions |-> <<>>]
    /\ hc_iter = <<>>
    /\ hc_out = <<>>
    /\ hc_tx = {}
    /\ window = [ip \in ClientIPs |-> 0]

\* The history of the requests written upstream is kept for these clients.
Tracked(ips) == sent = [ip \in ips |-> 0]

\* The state main leaves behind once startup has succeeded: ProxyState as
\* constructed, no connection accepted yet, both background tasks asleep.
\* max is --max-requests-per-minute, m the behaviour of the upstreams.
Boot(max, m) ==
    /\ main_pc = "accept"
    /\ options_upstream = Upstreams
    /\ max_requests_per_minute = max
    /\ upstream_addresses = Upstreams
    /\ hc_pc = "sleep"
    /\ mode = m
    /\ Idle
    /\ Tracked({})

\* ------------------------------------------------------------------ main
\* The --upstream options of a command line: none, or the configured ones.
CommandLines == {<<>>, Upstreams}

NoUpstreamNever(upstream) == FALSE

\* main's test of the parsed options: no upstream was given.
NoUpstream(upstream) == Len(upstream) < 1

\* The process before main has run: options parsed from the command line
\* cmd, no ProxyState, no task spawned.
Exec(cmd, max, m) ==
    /\ main_pc = "parse"
    /\ options_upstream = cmd
    /\ max_requests_per_minute = max
    /\ upstream_addresses = <<>>
    /\ hc_pc = "unspawned"
    /\ mode = m
    /\ Idle
    /\ Tracked({})

\* CmdOptions::parse() and the check of options.upstream: exit(1) without
\* an upstream.
main_parse ==
    /\ main_pc = "parse"
    /\ main_pc' = IF NoUpstream(options_upstream) THEN "exit1" ELSE "bind"
    /\ UNCHANGED <<options_upstream, max_requests_per_minute, shared, limiter,
                   checker, mode, session>>

\* TcpListener::bind(&options.bind).await: exit(1) on Err.
main_bind ==
    /\ main_pc = "bind"
    /\ \E bound \in BOOLEAN : main_pc' = IF bound THEN "state" ELSE "exit1"
    /\ UNCHANGED <<options_upstream, max_requests_per_minute, shared, limiter,
                   checker, mode, session>>

\* ProxyState is built from the options, the health checker is spawned
\* (and the reset timer, when the threshold is positive), and main enters
\* its accept loop.
main_state ==
    /\ main_pc = "state"
    /\ upstream_addresses' = options_upstream
    /\ hc_pc' = "sleep"
    /\ main_pc' = "accept"
    /\ UNCHANGED <<options_upstream, max_requests_per_minute, dead_addresses,
                   upstream_lock, dead_lock, limiter, hc_iter, hc_out, hc_tx,
                   mode, session>>

\* listener.next().await yields Some(Err(_)) or None: the pattern
\* Some(Ok(stream)) does not match, the while-let loop ends and main
\* returns, which shuts the runtime down with every task it runs.
accept_error ==
    /\ main_pc = "accept"
    /\ main_pc' = "returned"
    /\ UNCHANGED <<options_upstream, max_requests_per_minute, shared, limiter,
                   checker, mode, session>>

\* The runtime is up: spawned tasks are polled.
Running == main_pc = "accept"

\* ------------------------------------------------ environment: the codec
\* The X-Forwarded-For value a client sends itself: c2 stands behind
\* another proxy that already set the header, c1 sends none.
ClientXff(ip) == IF ip = "c2" THEN <<"x">> ELSE <<>>

\* Errors of request::read_from_stream; IncompleteRequest carries the
\* number of bytes read before the client stopped sending.
CodecErrors ==
    {[kind |-> "IncompleteRequest", bytes |-> b] : b \in {0, 5}}
    \cup {[kind |-> k, bytes |-> 0] :
            k \in {"MalformedRequest", "InvalidContentLength",
                   "ContentLengthMismatch", "RequestBodyTooLarge",
                   "ConnectionError"}}

\* Ok(request) or Err(error).
CodecOk == [kind |-> "Ok", bytes |-> 0]
CodecResults == {CodecOk} \cup CodecErrors

\* What a TCP connect to ip does, and what a probe of ip returns.
ConnectOk(ip) == mode[ip] # "refuse"
\* What a write to, and a read from, an established connection to ip does.
WriteOk(ip) == mode[ip] \notin {"refuse", "reset"}
ReadOk(ip) == mode[ip] \notin {"refuse", "reset", "mute"}
ProbeStatus(ip) == IF mode[ip] = "ok" THEN 200 ELSE 500

\* ------------------------------------------------------------ dispatcher
\* main: listener.next() yields a stream and a task is spawned for it;
\* handle_connection starts with the peer address of the client.
Accept(s, ip) ==
    /\ main_pc = "accept"
    /\ pc[s] = "closed"
    /\ pc' = [pc EXCEPT ![s] = "select"]
    /\ client_ip' = [client_ip EXCEPT ![s] = ip]
    /\ sel' = [sel EXCEPT ![s] = NoSel]
    /\ upstream_conn' = [upstream_conn EXCEPT ![s] = ""]
    /\ read_result' = [read_result EXCEPT ![s] = NoResult]
    /\ client_rx' = [client_rx EXCEPT ![s] = <<>>]
    /\ upstream_tx' = [upstream_tx EXCEPT ![s] = <<>>]
    /\ UNCHANGED <<process, shared, limiter, checker, mode>>

\* --------------------------------------------------------------- RwLock
\* RwLock::read() is granted while no task holds the write guard.
CanRead(lock) == lock.writer = NoTask

CanWriteBesideReaders(lock) == lock.writer = NoTask

\* RwLock::write() is granted while no task holds any guard.
CanWrite(lock) == lock.writer = NoTask /\ lock.readers = {}

\* ------------------------------------------------- get_random_upstream
\* state.upstream_addresses.read().await
get_random_upstream_lock(s) ==
    /\ pc[s] = "select"
    /\ CanRead(upstream_lock)
    /\ upstream_lock' = [upstream_lock EXCEPT !.readers = @ \cup {s}]
    /\ pc' = [pc EXCEPT ![s] = "pick"]
    /\ UNCHANGED <<read_result, process, upstream_addresses, dead_addresses,
                   dead_lock, limiter, checker, mode, client_ip, sel,
                   upstream_conn, client_rx, upstream_tx>>

\* The indices gen_range(0, len) can draw.
Draw(len) == 0..(len - 1)

AtMirrored(v, idx) == v[Len(v) - idx]

\* upstream[upstream_idx], the index counted from 0.
At(v, idx) == v[idx + 1]

\* The body of get_random_upstream under the read lock; None makes
\* connect_to_upstream return Err, Some((idx, ip)) makes it connect.
get_random_upstream(s) ==
    /\ pc[s] = "pick"
    /\ upstream_lock' = [upstream_lock EXCEPT !.readers = @ \ {s}]
    /\ IF Len(upstream_addresses) > 0
       THEN \E idx \in Draw(Len(upstream_addresses)) :
               /\ sel' = [sel EXCEPT ![s] = <<idx, At(upstream_addresses, idx)>>]
               /\ pc' = [pc EXCEPT ![s] = "connect"]
       ELSE /\ sel' = [sel EXCEPT ![s] = NoSel]
            /\ pc' = [pc EXCEPT ![s] = "no_upstream"]
    /\ UNCHANGED <<read_result, process, upstream_addresses, dead_addresses,
                   dead_lock, limiter, checker, mode, client_ip,
                   upstream_conn, client_rx, upstream_tx>>

\* ------------------------------------------------- connect_to_upstream
\* TcpStream::connect(ip).await: Ok returns the stream, Err goes on to
\* delete_upstream(state, idx).
connect_to_upstream(s) ==
    /\ pc[s] = "connect"
    /\ IF ConnectOk(sel[s][2])
       THEN /\ upstream_conn' = [upstream_conn EXCEPT ![s] = sel[s][2]]
            /\ sel' = [sel EXCEPT ![s] = NoSel]
            /\ pc' = [pc EXCEPT ![s] = "read"]
       ELSE /\ pc' = [pc EXCEPT ![s] = "delete"]
            /\ UNCHANGED <<upstream_conn, sel>>
    /\ UNCHANGED <<read_result, process, shared, limiter, checker, mode,
                   client_ip, client_rx, upstream_tx>>

\* ----------------------------------------------------- delete_upstream
delete_upstream_lock_dead(s) ==
    /\ pc[s] = "delete"
    /\ dead_lock = NoTask
    /\ dead_lock' = s
    /\ pc' = [pc EXCEPT ![s] = "delete_dead"]
    /\ UNCHANGED <<read_result, process, upstream_addresses, dead_addresses,
                   upstream_lock, limiter, checker, mode, client_ip, sel,
                   upstream_conn, client_rx, upstream_tx>>

\* state.upstream_addresses.write().await
delete_upstream_lock(s) ==
    /\ pc[s] = "delete"
    /\ CanWrite(upstream_lock)
    /\ upstream_lock' = [upstream_lock EXCEPT !.writer = s]
    /\ pc' = [pc EXCEPT ![s] = "delete_dead"]
    /\ UNCHANGED <<read_result, process, upstream_addresses, dead_addresses,
                   dead_lock, limiter, checker, mode, client_ip, sel,
                   upstream_conn, client_rx, upstream_tx>>

DeleteAtLost(upstream, dead, idx) ==
    IF idx < Len(upstream) THEN <<SwapRemove(upstream, idx), dead>>
    ELSE <<upstream, dead>>

DeleteAtClamped(upstream, dead, idx) ==
    LET i == IF idx < Len(upstream) THEN idx ELSE Len(upstream) - 1
    IN  IF upstream = <<>> THEN <<upstream, dead>>
        ELSE <<SwapRemove(upstream, i), Append(dead, At(upstream, i))>>

\* The new (upstream, dead) pair of delete_upstream's body for index idx.
DeleteAt(upstream, dead, idx) ==
    IF idx < Len(upstream)
    THEN <<SwapRemove(upstream, idx), Append(dead, At(upstream, idx))>>
    ELSE <<upstream, dead>>

AfterDeleteGiveUp == "no_upstream"

\* Where connect_to_upstream goes after delete_upstream: round its loop,
\* to the next selection.
AfterDelete == "select"

\* state.dead_addresses.write().await, the body, and the release of both
\* guards at the end of the function; connect_to_upstream then loops.
delete_upstream(s) ==
    /\ pc[s] = "delete_dead"
    /\ dead_lock = NoTask
    /\ LET after == DeleteAt(upstream_addresses, dead_addresses, sel[s][1])
       IN  /\ upstream_addresses' = after[1]
           /\ dead_addresses' = after[2]
    /\ upstream_lock' = [upstream_lock EXCEPT !.writer = NoTask]
    /\ UNCHANGED dead_lock
    /\ sel' = [sel EXCEPT ![s] = NoSel]
    /\ pc' = [pc EXCEPT ![s] = AfterDelete]
    /\ UNCHANGED <<read_result, process, limiter, checker, mode, client_ip,
                   upstream_conn, client_rx, upstream_tx>>

\* ---------------------------------------------------- handle_connection
\* send_response(&mut client_conn, &response)
Send(s, response) == client_rx' = [client_rx EXCEPT ![s] = Append(@, response)]

BadGatewayAsUnavailable == make_http_error(503)

\* The response of handle_connection when connect_to_upstream fails.
BadGateway == make_http_error(502)

AfterConnectErrorForward == "read"

\* Where handle_connection goes once it has answered the Err of
\* connect_to_upstream: it returns before the forwarding loop.
AfterConnectError == "closed"

\* connect_to_upstream returned Err: answer 502 and return.
no_upstream(s) ==
    /\ pc[s] = "no_upstream"
    /\ Send(s, BadGateway)
    /\ pc' = [pc EXCEPT ![s] = AfterConnectError]
    /\ UNCHANGED <<read_result, process, shared, limiter, checker, mode,
                   client_ip, sel, upstream_conn, upstream_tx>>

\* The request of the current iteration of the loop: the n-th request the
\* session reads, with the headers its client sends.
Request(s) == [n |-> Len(client_rx[s]) + 1, xff |-> ClientXff(client_ip[s])]

AfterReadAlways(max) == "limit"

\* Where a well-formed request goes after it was read.
AfterRead(max) == IF max > 0 THEN "limit" ELSE "forward"

SilentOnEof(error) == error.kind = "IncompleteRequest" /\ error.bytes = 0

\* The errors after which handle_connection returns without a response.
Silent(error) ==
    \/ error.kind = "IncompleteRequest" /\ error.bytes = 0
    \/ error.kind = "ConnectionError"

\* request::read_from_stream(&mut client_conn).await returns.  A client
\* sends at most MaxRequests requests on a connection and then hangs up.
read_from_stream(s) ==
    /\ pc[s] = "read"
    /\ \E result \in CodecResults :
          /\ ~Silent(result) => Len(client_rx[s]) < MaxRequests
          /\ (result = CodecOk /\ max_requests_per_minute > 0)
                => Count(requests_counter, client_ip[s]) < MaxCount
          /\ read_result' = [read_result EXCEPT ![s] = result]
    /\ pc' = [pc EXCEPT ![s] = "match"]
    /\ UNCHANGED <<process, shared, limiter, checker, mode,
                   client_ip, sel, upstream_conn, client_rx, upstream_tx>>

\* Ok(request): go on to the admission check or straight to forwarding.
read_request(s) ==
    /\ pc[s] = "match"
    /\ read_result[s] = CodecOk
    /\ read_result' = [read_result EXCEPT ![s] = NoResult]
    /\ pc' = [pc EXCEPT ![s] = AfterRead(max_requests_per_minute)]
    /\ UNCHANGED <<process, shared, limiter, checker, mode,
                   client_ip, sel, upstream_conn, client_rx, upstream_tx>>

\* Err(IncompleteRequest(0)) or Err(ConnectionError): handle_connection
\* returns, dropping both sockets.
client_gone(s) ==
    /\ pc[s] = "match"
    /\ read_result[s] # CodecOk
    /\ Silent(read_result[s])
    /\ read_result' = [read_result EXCEPT ![s] = NoResult]
    /\ pc' = [pc EXCEPT ![s] = "closed"]
    /\ upstream_conn' = [upstream_conn EXCEPT ![s] = ""]
    /\ UNCHANGED <<process, shared, limiter, checker, mode,
                   client_ip, sel, client_rx, upstream_tx>>

\* Any other Err(error): the mapped status is sent and the loop continues
\* with the next read.
read_error(s) ==
    /\ pc[s] = "match"
    /\ read_result[s] # CodecOk
    /\ ~Silent(read_result[s])
    /\ Send(s, make_http_error(ErrorStatus(read_result[s].kind)))
    /\ read_result' = [read_result EXCEPT ![s] = NoResult]
    /\ pc' = [pc EXCEPT ![s] = "read"]
    /\ UNCHANGED <<process, shared, limiter, checker, mode,
                   client_ip, sel, upstream_conn, upstream_tx>>

\* state.requests_counter.lock().await, the increment and the test; the
\* guard is dropped at the end of the block when the request is admitted
\* and is still held while the 429 is sent.
check_limit(s) ==
    /\ pc[s] = "limit"
    /\ counter_lock = NoTask
    /\ requests_counter' = Increment(requests_counter, client_ip[s])
    /\ window' = [window EXCEPT ![client_ip[s]] = @ + 1]
    /\ IF OverLimit(requests_counter'[client_ip[s]], max_requests_per_minute)
       THEN /\ counter_lock' = s
            /\ pc' = [pc EXCEPT ![s] = "reject"]
       ELSE /\ UNCHANGED counter_lock
            /\ pc' = [pc EXCEPT ![s] = "forward"]
    /\ UNCHANGED <<read_result, process, shared, checker, mode, client_ip,
                   sel, upstream_conn, client_rx, upstream_tx, sent>>

AfterRejectContinue == "read"

\* Where handle_connection goes once the 429 is sent: it returns.
AfterReject == "closed"

\* send_response of the 429, then return (the counter guard is dropped,
\* and so are both sockets).
reject(s) ==
    /\ pc[s] = "reject"
    /\ Send(s, make_http_error(429))
    /\ counter_lock' = NoTask
    /\ pc' = [pc EXCEPT ![s] = AfterReject]
    /\ upstream_conn' = [upstream_conn EXCEPT ![s] =
                            IF AfterReject = "closed" THEN "" ELSE @]
    /\ UNCHANGED <<read_result, process, shared, requests_counter, window, sent,
                   checker, mode, client_ip, sel, upstream_tx>>

AfterUpstreamErrorRetry == "select"

AfterUpstreamErrorMarkDead == "delete"

\* Where handle_connection goes once it has answered a failed write to
\* the upstream, or a failed read of its response, with 502: it returns.
AfterUpstreamError == "closed"

ForwardedAsIs(req, ip) == req

\* The request handle_connection writes to the upstream.
Forwarded(req, ip) == extend_header_value(req, ip)

UpstreamConnReselected(s) ==
    IF upstream_addresses # <<>> THEN upstream_addresses[1] ELSE upstream_conn[s]

\* The upstream socket handle_connection writes a request to and reads
\* its response from: the one connect_to_upstream returned.
UpstreamConn(s) == upstream_conn[s]

\* extend_header_value and request::write_to_stream(&request, &mut
\* upstream_conn); a failed write answers 502 and returns.
forward(s) ==
    /\ pc[s] = "forward"
    /\ IF WriteOk(upstream_conn[s])
       THEN /\ upstream_tx' = [upstream_tx EXCEPT ![s] =
                   Append(@, [to |-> UpstreamConn(s),
                              req |-> Forwarded(Request(s), client_ip[s])])]
            /\ sent' = IF client_ip[s] \in DOMAIN sent
                       THEN [sent EXCEPT ![client_ip[s]] = @ + 1]
                       ELSE sent
            /\ pc' = [pc EXCEPT ![s] = "response"]
            /\ UNCHANGED <<client_rx, upstream_conn>>
       ELSE /\ Send(s, make_http_error(502))
            /\ pc' = [pc EXCEPT ![s] = AfterUpstreamError]
            /\ upstream_conn' = [upstream_conn EXCEPT ![s] = ""]
            /\ UNCHANGED <<upstream_tx, sent>>
    /\ UNCHANGED <<read_result, process, shared, requests_counter, counter_lock,
                   window, checker, mode, client_ip, sel>>

\* What the upstream at ip answers to the last request written to it.
UpstreamResponse(ip, tx) ==
    [status |-> ProbeStatus(ip), origin |-> ip, re |-> tx[Len(tx)].req.n]

RelayedAsOwn(response) == [response EXCEPT !.origin = "proxy"]

\* The response handle_connection relays for an upstream response.
Relayed(response) == response

\* response::read_from_stream(&mut upstream_conn, ..): Ok is relayed to the
\* client and the loop goes on, Err answers 502 and returns.
relay(s) ==
    /\ pc[s] = "response"
    /\ IF ReadOk(upstream_conn[s])
       THEN /\ Send(s, Relayed(UpstreamResponse(upstream_conn[s], upstream_tx[s])))
            /\ pc' = [pc EXCEPT ![s] = "read"]
            /\ UNCHANGED upstream_conn
       ELSE /\ Send(s, make_http_error(502))
            /\ pc' = [pc EXCEPT ![s] = AfterUpstreamError]
            /\ upstream_conn' = [upstream_conn EXCEPT ![s] = ""]
    /\ UNCHANGED <<read_result, process, shared, limiter, checker, mode,
                   client_ip, sel, upstream_tx>>

\* ------------------------------------------------ requests_counter_timer
\* Spawned only when max_requests_per_minute > 0: after the delay, lock
\* the counter map and clear it.
requests_counter_timer ==
    /\ max_requests_per_minute > 0
    /\ counter_lock = NoTask
    /\ requests_counter' = <<>>
    /\ window' = [ip \in ClientIPs |-> 0]
    /\ sent' = [ip \in DOMAIN sent |-> 0]
    /\ UNCHANGED <<process, shared, counter_lock, checker,
                   mode, session>>

\* -------------------------------------------------- active_health_check
\* After the delay: filter_alive's state.upstream_addresses.write().await
filter_alive_lock ==
    /\ hc_pc = "sleep"
    /\ CanWrite(upstream_lock)
    /\ upstream_lock' = [upstream_lock EXCEPT !.writer = HC]
    /\ hc_pc' = "lock_dead"
    /\ UNCHANGED <<process, upstream_addresses, dead_addresses,
                   dead_lock, limiter, hc_iter, hc_out, hc_tx, mode, session>>

\* state.dead_addresses.write().await; upstream.append(&mut dead); dead =
\* upstream.clone(); the stream takes the upstream Vec, leaving it empty.
filter_alive_start ==
    /\ hc_pc = "lock_dead"
    /\ dead_lock = NoTask
    /\ dead_lock' = HC
    /\ LET merged == upstream_addresses \o dead_addresses
       IN  /\ dead_addresses' = merged
           /\ hc_iter' = merged
    /\ upstream_addresses' = <<>>
    /\ hc_out' = <<>>
    /\ hc_pc' = "probe"
    /\ UNCHANGED <<process, upstream_lock, limiter, hc_tx,
                   mode, session>>

\* The request is_alive builds: GET of the health-check path, Host: ip.
Probe(ip) == [to |-> ip, req |-> [n |-> 0, xff |-> <<>>]]

is_alive_any_status(ip) == ConnectOk(ip)

\* is_alive(state, &ip): Some(()) iff the connect, the write and the read
\* succeed and the status is 200.
is_alive(ip) ==
    ConnectOk(ip) /\ WriteOk(ip) /\ ReadOk(ip) /\ ProbeStatus(ip) = 200

\* One item of the filter_map stream: probe the next address.
filter_alive_probe ==
    /\ hc_pc = "probe"
    /\ hc_iter # <<>>
    /\ LET ip == Head(hc_iter)
       IN  /\ hc_out' = IF is_alive(ip) THEN Append(hc_out, ip) ELSE hc_out
           /\ hc_tx' = IF ConnectOk(ip) /\ WriteOk(ip) THEN hc_tx \cup {Probe(ip)} ELSE hc_tx
    /\ hc_iter' = Tail(hc_iter)
    /\ UNCHANGED <<process, shared, limiter, hc_pc, mode, session>>

DeadAfterUnfiltered(merged, alive) == merged

\* The dead Vec filter_alive leaves: the merged addresses not collected.
DeadAfter(merged, alive) == FilterNotIn(merged, Range(alive))

\* The stream is collected into upstream, dead keeps the addresses that
\* are not alive, and both guards are dropped.
filter_alive_finish ==
    /\ hc_pc = "probe"
    /\ hc_iter = <<>>
    /\ upstream_addresses' = hc_out
    /\ dead_addresses' = DeadAfter(dead_addresses, hc_out)
    /\ upstream_lock' = [upstream_lock EXCEPT !.writer = NoTask]
    /\ dead_lock' = NoTask
    /\ hc_out' = <<>>
    /\ hc_tx' = {}
    /\ hc_pc' = "sleep"
    /\ UNCHANGED <<process, limiter, hc_iter, mode, session>>

\* ----------------------------------------------------------- environment
\* An upstream starts or stops accepting connections or answering 200.
set_mode(ip, m) ==
    /\ mode[ip] # m
    /\ mode' = [mode EXCEPT ![ip] = m]
    /\ UNCHANGED <<process, shared, limiter, checker, session>>

\* -------------------------------------------------------- specifications
\* The steps of one connection task, grouped as the source groups them.
Failover(s) ==
    \/ get_random_upstream_lock(s)
    \/ get_random_upstream(s)
    \/ connect_to_upstream(s)
    \/ delete_upstream_lock(s)
    \/ delete_upstream(s)
    \/ no_upstream(s)

Loop(s) ==
    \/ read_from_stream(s)
    \/ read_request(s)
    \/ client_gone(s)
    \/ read_error(s)
    \/ forward(s)
    \/ relay(s)

Admission(s) ==
    \/ check_limit(s)
    \/ reject(s)

HealthCheck ==
    \/ filter_alive_lock
    \/ filter_alive_start
    \/ filter_alive_probe
    \/ filter_alive_finish

Environment == \E ip \in Addrs, m \in Modes : set_mode(ip, m)

\* Spec: the whole proxy in every configuration, with upstreams that serve
\* or are unreachable and come and go at any time, and with the clients
\* connecting one after the other (one connection task at a time,
\* concurrent with both background tasks).
Init == \E max \in 0..MaxThreshold, m \in [Addrs -> Reachability] : Boot(max, m)

Next ==
    \/ \E ip \in ClientIPs : Accept(1, ip)
    \/ Failover(1)
    \/ Loop(1)
    \/ Admission(1)
    \/ requests_counter_timer
    \/ HealthCheck
    \/ \E ip \in Addrs, m \in Reachability : set_mode(ip, m)

Spec == Init /\ [][Next]_vars

\* SpecMain: the process from its start, with every command line, a bind
\* that may fail and an accept loop that may meet an error; one
\* connection task at a time, clients behind one address.
InitMain ==
    \E cmd \in CommandLines, max \in 0..MaxThreshold, m \in [Addrs -> Reachability] :
        Exec(cmd, max, m)

NextMain ==
    \/ main_parse
    \/ main_bind
    \/ main_state
    \/ accept_error
    \/ Running /\ Accept(1, "c1")
    \/ Running /\ Failover(1)
    \/ Running /\ Loop(1)
    \/ Running /\ Admission(1)
    \/ Running /\ requests_counter_timer
    \/ Running /\ HealthCheck
    \/ Running /\ \E ip \in Addrs, m \in Reachability : set_mode(ip, m)

SpecMain == InitMain /\ [][NextMain]_vars

\* SpecFailover: concurrent connection tasks in connect_to_upstream against
\* the health checker and changing upstreams.  Rate limiting is off
\* (max_requests_per_minute = 0, so check_limit, reject and the timer are
\* never enabled), and the clients, all behind one address, hang up once
\* they are connected.
hang_up(s) == read_from_stream(s) /\ Silent(read_result'[s])

InitFailover == \E m \in [Addrs -> Modes] : Boot(0, m)

NextFailover ==
    \/ \E s \in Sessions : Accept(s, "c1")
    \/ \E s \in Sessions : Failover(s)
    \/ \E s \in Sessions : hang_up(s)
    \/ \E s \in Sessions : client_gone(s)
    \/ HealthCheck
    \/ Environment

SpecFailover == InitFailover /\ [][NextFailover]_vars

\* SpecLive: SpecFailover's upstreams and health checker with one
\* connection task at a time, under the scheduling the runtime provides:
\* a task that holds a lock runs on to its release, the health checker's
\* timer keeps firing, its probes return, and a writer waiting for the
\* RwLock gets it once it is free (tokio's RwLock queues its waiters).
NextLive ==
    \/ Accept(1, "c1")
    \/ Failover(1)
    \/ hang_up(1)
    \/ client_gone(1)
    \/ HealthCheck
    \/ Environment

Fairness ==
    /\ WF_vars(get_random_upstream(1))
    /\ WF_vars(delete_upstream(1))
    /\ SF_vars(filter_alive_lock)
    /\ WF_vars(filter_alive_start)
    /\ WF_vars(filter_alive_probe)
    /\ WF_vars(filter_alive_finish)

SpecLive == InitFailover /\ [][NextLive]_vars /\ Fairness

\* SpecRetry: concurrent connection tasks in connect_to_upstream beside
\* the health checker, with upstreams that serve or refuse at the start
\* and go away at any time, under the scheduling the runtime provides: a
\* task that can run does run, connects and probes return, and a task
\* waiting for the RwLock gets it once the tasks before it have released
\* it (tokio's RwLock queues its waiters in order, so that readers that
\* keep arriving cannot hold up a waiting writer).  Clients need not
\* connect and the checker's timer need not fire.
InitRetry == \E m \in [Addrs -> Reachability] : Boot(0, m)

NextRetry ==
    \/ \E s \in Sessions : Accept(s, "c1")
    \/ \E s \in Sessions : Failover(s)
    \/ \E s \in Sessions : hang_up(s)
    \/ \E s \in Sessions : client_gone(s)
    \/ HealthCheck
    \/ \E ip \in Addrs : set_mode(ip, "refuse")

FairnessRetry ==
    /\ \A s \in Sessions :
          /\ WF_vars(get_random_upstream(s) \/ connect_to_upstream(s)
                                            \/ delete_upstream(s))
          /\ []<>(pc[s] # "select")
          /\ []<>(pc[s] # "delete")
    /\ WF_vars(filter_alive_start \/ filter_alive_probe \/ filter_alive_finish)

SpecRetry == InitRetry /\ [][NextRetry]_vars /\ FairnessRetry

\* SpecProbe: the health checker against upstreams that fail in every way
\* a probe can fail and change at any time, with one connection task at a
\* time failing over beside it; rate limiting is off.
InitProbe == \E m \in [Addrs -> ProbeModes] : Boot(0, m)

NextProbe ==
    \/ Accept(1, "c1")
    \/ Failover(1)
    \/ hang_up(1)
    \/ client_gone(1)
    \/ HealthCheck
    \/ \E ip \in Addrs, m \in ProbeModes : set_mode(ip, m)

SpecProbe == InitProbe /\ [][NextProbe]_vars

\* SpecAB: the scenario of two upstreams of which A refuses every
\* connection and B always serves; rate limiting is off, the connection
\* tasks run concurrently and go through the whole forwarding loop.
InitAB == Boot(0, [ip \in Addrs |-> IF ip = "A" THEN "refuse" ELSE "ok"])

NextAB ==
    \/ \E s \in Sessions : Accept(s, "c1")
    \/ \E s \in Sessions : Failover(s)
    \/ \E s \in Sessions : Loop(s)
    \/ HealthCheck

SpecAB == InitAB /\ [][NextAB]_vars

\* ================================================================ claims
Alive == Range(upstream_addresses)
Dead == Range(dead_addresses)
Last(q) == q[Len(q)]

\* A state a task can observe: nobody holds the write lock of
\* upstream_addresses (dead_addresses is only locked inside it).
Observable == upstream_lock.writer = NoTask

\* C1: in every state observable between lock acquisitions, alive and dead
\* are disjoint, their union is the configured upstream set, and no address
\* is listed twice (checked under SpecFailover).
C1_Partition ==
    Observable =>
        /\ Alive \cap Dead = {}
        /\ Alive \cup Dead = Addrs
        /\ Len(upstream_addresses) + Len(dead_addresses) = Len(Upstreams)

\* C1 witness: an address was marked dead and a later health-check pass
\* brought it back, behind the address that stayed alive.
C1_Witness ==
    /\ Observable
    /\ upstream_addresses = <<"B", "A">>
    /\ dead_addresses = <<>>

\* C2: get_random_upstream returns None exactly when alive is empty at its
\* read; otherwise the pair (idx, ip) it returns has alive[idx] = ip at that
\* moment, and ip is not in dead at that moment (SpecFailover).
C2_Select ==
    [][\A s \in Sessions :
         (pc[s] = "pick" /\ pc'[s] # "pick") =>
            /\ (pc'[s] = "no_upstream") <=> (upstream_addresses = <<>>)
            /\ pc'[s] # "no_upstream" =>
                  /\ pc'[s] = "connect"
                  /\ sel'[s][1] \in 0..(Len(upstream_addresses) - 1)
                  /\ upstream_addresses[sel'[s][1] + 1] = sel'[s][2]
                  /\ sel'[s][2] \notin Dead]_vars

\* C2 witness: the first configured address is dead and a session drew the
\* remaining one, which swap_remove moved to index 0.
C2_Witness ==
    \E s \in Sessions :
        /\ pc[s] = "connect"
        /\ sel[s] = <<0, "B">>
        /\ upstream_addresses = <<"B">>
        /\ dead_addresses = <<"A">>

\* C3: a selection that finds alive empty makes connect_to_upstream return
\* the error at once; the session's next and last step answers the client
\* with a single 502, without a connect attempt or another selection
\* (SpecFailover).
C3_AllDead ==
    [][\A s \in Sessions :
         /\ (pc[s] = "pick" /\ upstream_addresses = <<>> /\ pc'[s] # "pick")
               => (pc'[s] = "no_upstream" /\ upstream_conn'[s] = "")
         /\ (pc[s] = "no_upstream" /\ pc'[s] # "no_upstream")
               => /\ pc'[s] = "closed"
                  /\ client_rx'[s] = Append(client_rx[s], make_http_error(502))
                  /\ upstream_conn'[s] = ""
                  /\ upstream_tx'[s] = <<>>]_vars

\* C3 witness: every upstream is dead and a session that met them all dead
\* at its first selection has answered its one 502.
C3_Witness ==
    \E s \in Sessions :
        /\ pc[s] = "closed"
        /\ client_rx[s] = <<make_http_error(502)>>
        /\ Dead = Addrs
        /\ upstream_addresses = <<>>

\* C4: with threshold N > 0, the k-th well-formed request of a client IP
\* since the last reset is admitted (and written to the upstream when the
\* upstream takes it) for k <= N and answered with 429 for k = N + 1; the
\* reset starts the count again, so the next request is admitted (Spec).
C4_Window ==
    [][\A s \in Sessions :
         LET k == window[client_ip[s]] + 1
             N == max_requests_per_minute
         IN  /\ (pc[s] = "limit" /\ pc'[s] # "limit") =>
                   /\ k <= N => (pc'[s] = "forward" /\ client_rx'[s] = client_rx[s])
                   /\ k = N + 1 => pc'[s] = "reject"
                   /\ window'[client_ip[s]] = k
             /\ (pc[s] = "reject" /\ pc'[s] # "reject") =>
                   client_rx'[s] = Append(client_rx[s], make_http_error(429))
             /\ (pc[s] = "forward" /\ pc'[s] # "forward"
                 /\ mode[upstream_conn[s]] = "ok") =>
                   Len(upstream_tx'[s]) = Len(upstream_tx[s]) + 1
             /\ (requests_counter # <<>> /\ requests_counter' = <<>>) =>
                   \A ip \in ClientIPs : window'[ip] = 0]_vars

\* C4 witness: request N + 1 of the window is being rejected.
C4_Witness ==
    \E s \in Sessions :
        /\ max_requests_per_minute > 0
        /\ pc[s] = "reject"
        /\ window[client_ip[s]] = max_requests_per_minute + 1

\* C5: with threshold 0 the counter map stays empty, no session ever
\* reaches the admission check, and no client is answered with 429 (Spec).
C5_Unlimited ==
    max_requests_per_minute = 0 =>
        /\ requests_counter = <<>>
        /\ \A s \in Sessions :
              /\ pc[s] \notin {"limit", "reject"}
              /\ \A k \in 1..Len(client_rx[s]) : client_rx[s][k].status # 429

\* C5 witness: unlimited, and a session got as many upstream responses as
\* a client sends requests.
C5_Witness ==
    /\ max_requests_per_minute = 0
    /\ \E s \in Sessions :
          /\ Len(client_rx[s]) = MaxRequests
          /\ \A k \in 1..MaxRequests : client_rx[s][k].origin \in Addrs

\* C6: under fair scheduling, an address that from some point on never
\* answers a probe with 200 is eventually in dead and stays there; an
\* address that from some point on always answers 200 is put back into
\* alive by the passes that follow; and every pass ends with the addresses
\* whose probe it saw succeed in alive, whether they were alive or dead
\* before (SpecLive).
C6_Converges ==
    /\ \A ip \in Addrs :
          /\ <>[](mode[ip] # "ok") => <>[](ip \in Dead /\ ip \notin Alive)
          /\ <>[](mode[ip] = "ok") => []<>(ip \in Alive)
    /\ [][(hc_pc = "probe" /\ hc_pc' = "sleep") =>
              /\ Range(hc_out) \subseteq Range(upstream_addresses')
              /\ Range(hc_out) \cap Range(dead_addresses') = {}]_vars
    /\ [][(hc_pc = "lock_dead" /\ hc_pc' = "probe") =>
              Range(hc_iter') = Alive \cup Dead]_vars

\* C6 witness: a health-check pass put an address into dead that accepts
\* connections but does not answer 200.
C6_Witness ==
    /\ hc_pc = "sleep"
    /\ mode["A"] = "bad"
    /\ upstream_addresses = <<"B">>
    /\ dead_addresses = <<"A">>

\* Some session has relayed an upstream response: a client request has
\* been handled.
Handled ==
    \E s \in Sessions : \E k \in 1..Len(client_rx[s]) : client_rx[s][k].origin \in Addrs

\* C7: with A refusing every connection and B always serving, once a
\* client request has been handled every later request is routed to B: B
\* is there to be selected and no session is left without an upstream
\* (SpecAB).
C7_RoutedToB ==
    (Handled /\ Observable) =>
        /\ "B" \in Alive
        /\ \A s \in Sessions : pc[s] # "no_upstream"

\* The client-framing errors of C8.
Framing(result) ==
    \/ result.kind = "IncompleteRequest" /\ result.bytes > 0
    \/ result.kind \in {"MalformedRequest", "InvalidContentLength",
                        "ContentLengthMismatch", "RequestBodyTooLarge"}

\* C8: on a client-framing error the session sends 413 for a body too
\* large and 400 for the others, writes nothing to the upstream, leaves the
\* admission counters alone and reads the next request (Spec).
C8_Framing ==
    [][\A s \in Sessions :
         (pc[s] = "match" /\ Framing(read_result[s]) /\ pc'[s] # "match") =>
            /\ client_rx'[s] = Append(client_rx[s], make_http_error(
                  IF read_result[s].kind = "RequestBodyTooLarge" THEN 413 ELSE 400))
            /\ upstream_tx' = upstream_tx
            /\ requests_counter' = requests_counter
            /\ pc'[s] = "read"]_vars

\* C8 witness: rate limiting is on, a session answered its first read with
\* 400, forwarded nothing, counted nothing and waits for the next request.
C8_Witness ==
    \E s \in Sessions :
        /\ max_requests_per_minute > 0
        /\ pc[s] = "read"
        /\ client_rx[s] = <<make_http_error(400)>>
        /\ upstream_tx[s] = <<>>
        /\ requests_counter = <<>>

\* C9: in a session the k-th response is the answer to the k-th request;
\* a response that comes from an upstream is that upstream's response to
\* the request the session wrote to it, unchanged, and after relaying it
\* the session reads the next request (Spec).
C9_Relay ==
    [][\A s \in Sessions :
         (pc[s] = "response" /\ pc'[s] # "response"
          /\ mode[upstream_conn[s]] = "ok") =>
            /\ client_rx'[s] = Append(client_rx[s],
                  [status |-> 200, origin |-> upstream_conn[s],
                   re |-> Len(client_rx[s]) + 1])
            /\ Last(upstream_tx[s]).req.n = Len(client_rx[s]) + 1
            /\ Last(upstream_tx[s]).to = upstream_conn[s]
            /\ pc'[s] = "read"]_vars

\* C9 witness: two requests on one connection were answered by the
\* upstream, in order, and the session is open for a third.
C9_Witness ==
    \E s \in Sessions :
        /\ pc[s] = "read"
        /\ Len(client_rx[s]) = 2
        /\ \A k \in 1..2 :
              client_rx[s][k] = [status |-> 200, origin |-> upstream_conn[s], re |-> k]

\* C10: every request a session wrote to an upstream carries the client's
\* own X-Forwarded-For value extended with the session's client IP; the
\* health checker's probes are the only other requests written (Spec).
C10_ForwardedFor ==
    /\ \A s \in Sessions : \A k \in 1..Len(upstream_tx[s]) :
          /\ upstream_tx[s][k].req.xff = Append(ClientXff(client_ip[s]), client_ip[s])
          /\ upstream_tx[s][k].req.n >= 1
    /\ \A p \in hc_tx : p.to \in Addrs /\ p.req = [n |-> 0, xff |-> <<>>]

\* C10 witness: a request of a client that sent its own header value was
\* written to an upstream.
C10_Witness ==
    \E s \in Sessions :
        /\ upstream_tx[s] # <<>>
        /\ upstream_tx[s][1].req.xff = <<"x", "c2">>

\* C11: a request whose incremented counter exceeds the threshold is
\* answered with 429 and not written to the upstream, and the session
\* returns: a session whose last response is a 429 is closed and has
\* written to the upstream only requests it answered before (Spec).
C11_Rejected ==
    /\ [][\A s \in Sessions :
            /\ (pc[s] = "limit" /\ pc'[s] # "limit"
                /\ Count(requests_counter, client_ip[s]) + 1 > max_requests_per_minute)
                  => /\ pc'[s] = "reject"
                     /\ upstream_tx'[s] = upstream_tx[s]
            /\ (pc[s] = "reject" /\ pc'[s] # "reject")
                  => /\ client_rx'[s] = Append(client_rx[s], make_http_error(429))
                     /\ upstream_tx'[s] = upstream_tx[s]
                     /\ upstream_conn'[s] = ""
                     /\ pc'[s] = "closed"]_vars
    /\ [](\A s \in Sessions :
            (client_rx[s] # <<>> /\ Last(client_rx[s]).status = 429)
                => /\ pc[s] = "closed"
                   /\ Len(upstream_tx[s]) <= Len(client_rx[s]) - 1)

\* C11 witness: a session had its first request relayed and its second
\* one rejected, and is closed.
C11_Witness ==
    \E s \in Sessions :
        /\ pc[s] = "closed"
        /\ Len(client_rx[s]) = 2
        /\ client_rx[s][1].origin \in Addrs
        /\ client_rx[s][2] = make_http_error(429)
        /\ Len(upstream_tx[s]) = 1

\* C12: when the write of an admitted request to the upstream fails, or
\* the read of the upstream's response fails, the session answers that
\* request with one 502 and returns: it selects no other upstream, marks
\* none dead, writes nothing more and reads no further request (Spec).
C12_UpstreamError ==
    [][\A s \in Sessions :
         (pc[s] \in {"forward", "response"} /\ pc'[s] # pc[s]
          /\ mode[upstream_conn[s]] = "refuse") =>
            /\ client_rx'[s] = Append(client_rx[s], make_http_error(502))
            /\ pc'[s] = "closed"
            /\ upstream_conn'[s] = ""
            /\ upstream_tx'[s] = upstream_tx[s]
            /\ UNCHANGED <<shared, limiter>>]_vars

\* C12 witness: a session wrote its first request to an upstream that
\* went away before it answered; the session sent its one 502 and is
\* closed, while the address is still listed alive.
C12_Witness ==
    \E s \in Sessions :
        /\ pc[s] = "closed"
        /\ client_rx[s] = <<make_http_error(502)>>
        /\ Len(upstream_tx[s]) = 1
        /\ mode[upstream_tx[s][1].to] = "refuse"
        /\ upstream_tx[s][1].to \in Alive

\* C13: a session whose connect_to_upstream failed has read nothing, sent
\* nothing and holds no upstream socket; its one step sends a single 502
\* and ends the task, leaving the admission counters, the alive/dead lists
\* and the upstream untouched, so the forwarding loop is never entered
\* (Spec).
C13_NoUpstream ==
    /\ [][\A s \in Sessions :
            (pc[s] = "no_upstream" /\ pc'[s] # "no_upstream") =>
               /\ client_rx'[s] = <<make_http_error(502)>>
               /\ pc'[s] = "closed"
               /\ upstream_tx'[s] = <<>>
               /\ read_result'[s] = NoResult
               /\ UNCHANGED <<shared, limiter>>]_vars
    /\ [](\A s \in Sessions :
            pc[s] = "no_upstream" =>
               /\ client_rx[s] = <<>>
               /\ upstream_tx[s] = <<>>
               /\ upstream_conn[s] = ""
               /\ read_result[s] = NoResult)

\* C13 witness: rate limiting is on and an earlier session of the client
\* was counted; a later session found no upstream, answered its 502 and
\* is closed, and the count is as it was.
C13_Witness ==
    \E s \in Sessions :
        /\ max_requests_per_minute > 0
        /\ pc[s] = "closed"
        /\ client_rx[s] = <<make_http_error(502)>>
        /\ upstream_tx[s] = <<>>
        /\ upstream_addresses = <<>>
        /\ Count(requests_counter, client_ip[s]) = 1

\* C14: once startup has succeeded the process keeps running and the
\* dispatcher keeps accepting: main never leaves its accept loop
\* (SpecMain).
C14_KeepsAccepting == [][main_pc = "accept" => main_pc' = "accept"]_vars

\* C15: without an upstream main exits with status 1 at the check of its
\* options, and when the bind fails it exits with status 1 there; up to
\* these points no ProxyState exists, no task is spawned and no
\* connection is accepted, and the exited process takes no further step.
\* With an upstream and a bound listener main goes on (SpecMain).
C15_Startup ==
    /\ [][(main_pc = "parse" /\ main_pc' # "parse") =>
              /\ (main_pc' = "exit1") <=> (options_upstream = <<>>)
              /\ main_pc' \in {"exit1", "bind"}]_vars
    /\ [][(main_pc = "bind" /\ main_pc' # "bind") =>
              main_pc' \in {"exit1", "state"}]_vars
    /\ [][(main_pc \in {"parse", "bind"}) =>
              UNCHANGED <<shared, limiter, checker, session>>]_vars
    /\ [][main_pc # "exit1"]_vars
    /\ [](main_pc = "exit1" =>
             /\ upstream_addresses = <<>>
             /\ hc_pc = "unspawned"
             /\ requests_counter = <<>>
             /\ \A s \in Sessions : pc[s] = "closed" /\ client_rx[s] = <<>>)
    /\ [](options_upstream = <<>> => main_pc \in {"parse", "exit1"})

\* C15 witness: upstreams were given but the bind failed, and the process
\* has exited with status 1.
C15_Witness ==
    /\ main_pc = "exit1"
    /\ options_upstream = Upstreams
    /\ hc_pc = "unspawned"

\* C16: delete_upstream takes out of alive, and puts into dead, no address
\* but the one get_random_upstream returned to the calling session, whose
\* connect that session saw fail (SpecAB).
C16_MarksFailed ==
    [][\A s \in Sessions :
         (pc[s] = "delete_dead" /\ pc'[s] # "delete_dead") =>
            /\ (Alive \ Range(upstream_addresses')) \subseteq {sel[s][2]}
            /\ (Range(dead_addresses') \ Dead) \subseteq {sel[s][2]}]_vars

\* C17: while the health checker probes, it holds no lock on alive or
\* dead, so selections and deletions of the connection tasks go on; it
\* locks only once every address is probed (SpecFailover).
C17_ProbesUnlocked ==
    (hc_pc = "probe" /\ hc_iter # <<>>) =>
        /\ upstream_lock.writer # HC
        /\ dead_lock # HC

\* C18: a pass starts from the merged list alive ++ dead; a probed address
\* is collected exactly when its upstream answers the probe with a 200,
\* whichever way it fails otherwise; and the pass ends with alive the
\* collected addresses and dead the others of the merged list, so the
\* union is what it was at the start (SpecProbe).
C18_Pass ==
    /\ [][(hc_pc = "lock_dead" /\ hc_pc' = "probe") =>
              /\ hc_iter' = upstream_addresses \o dead_addresses
              /\ dead_addresses' = hc_iter'
              /\ hc_out' = <<>>]_vars
    /\ [][(hc_pc = "probe" /\ hc_iter # <<>> /\ hc_iter' # hc_iter) =>
              /\ hc_iter' = Tail(hc_iter)
              /\ hc_out' = IF mode[Head(hc_iter)] = "ok"
                           THEN Append(hc_out, Head(hc_iter)) ELSE hc_out
              /\ dead_addresses' = dead_addresses]_vars
    /\ [][(hc_pc = "probe" /\ hc_pc' = "sleep") =>
              /\ hc_iter = <<>>
              /\ upstream_addresses' = hc_out
              /\ Range(dead_addresses') = Dead \ Range(hc_out)
              /\ Range(upstream_addresses') \cup Range(dead_addresses') = Dead
              /\ Len(upstream_addresses') + Len(dead_addresses') = Len(dead_addresses)]_vars

\* C18 witness: a pass that found one upstream answering 200 and the other
\* taking the request without answering has published B alive and A dead,
\* both having been alive before.
C18_Witness ==
    /\ hc_pc = "sleep"
    /\ mode = [ip \in Addrs |-> IF ip = "A" THEN "mute" ELSE "ok"]
    /\ upstream_addresses = <<"B">>
    /\ dead_addresses = <<"A">>
    /\ \A s \in Sessions : pc[s] = "closed" /\ client_rx[s] = <<>>

\* C19: the write guard of alive is held by at most one task, the health
\* checker in its pass or a session in delete_upstream, and never beside a
\* reader; dead is only written inside it.  Every selection therefore
\* reads, and every deletion starts from, a partition of the configured
\* addresses; an emptied or merged list is never seen.  Several
\* selections may hold the read guard together (SpecFailover).
C19_Exclusive ==
    /\ upstream_lock.writer # NoTask => upstream_lock.readers = {}
    /\ upstream_lock.readers = {s \in Sessions : pc[s] = "pick"}
    /\ \A s \in Sessions : (upstream_lock.writer = s) <=> (pc[s] = "delete_dead")
    /\ (upstream_lock.writer = HC) <=> (hc_pc \in {"lock_dead", "probe"})
    /\ (dead_lock = HC) <=> (hc_pc = "probe")
    /\ dead_lock # NoTask => upstream_lock.writer = dead_lock
    /\ Cardinality({s \in Sessions : pc[s] = "delete_dead"}) <= 1
    /\ \A s \in Sessions :
          (pc[s] \in {"pick", "delete_dead"} \/ hc_pc = "lock_dead") =>
             /\ Alive \cap Dead = {}
             /\ Alive \cup Dead = Addrs
             /\ Len(upstream_addresses) + Len(dead_addresses) = Len(Upstreams)

\* C19 witness: every session holds the read guard at once, after a
\* deletion has moved an address to dead.
C19_Witness ==
    /\ upstream_lock.readers = Sessions
    /\ upstream_lock.writer = NoTask
    /\ dead_addresses # <<>>

\* A session is inside connect_to_upstream.
InFailover(s) == pc[s] \in {"select", "pick", "connect", "delete", "delete_dead"}

\* C20: connect_to_upstream returns Ok only from a connect that succeeded,
\* with the connection to the address selected in that iteration, and Err
\* only from a selection that found alive empty; and once every upstream
\* refuses (for good: in SpecRetry an upstream that went away stays away),
\* every session inside it comes to the Err, with other sessions failing
\* over and passes running beside it (SpecRetry).
C20_Returns ==
    /\ [][\A s \in Sessions :
            (InFailover(s) /\ pc'[s] # pc[s]) =>
               /\ pc'[s] \in {"select", "pick", "connect", "delete", "delete_dead",
                              "read", "no_upstream"}
               /\ pc'[s] = "read" =>
                     /\ pc[s] = "connect"
                     /\ ConnectOk(sel[s][2])
                     /\ upstream_conn'[s] = sel[s][2]
               /\ pc'[s] = "no_upstream" =>
                     /\ pc[s] = "pick"
                     /\ upstream_addresses = <<>>]_vars
    /\ \A s \in Sessions :
          (InFailover(s) /\ \A ip \in Addrs : mode[ip] = "refuse")
              ~> (pc[s] = "no_upstream")

\* C20 witness: both sessions were failing over at once; one has returned
\* the error after every address was marked dead, the other is about to
\* make its next selection.
C20_Witness ==
    /\ pc[1] = "no_upstream"
    /\ pc[2] = "select"
    /\ upstream_addresses = <<>>
    /\ Dead = Addrs
    /\ hc_pc = "sleep"

\* ------------------------------------------------------------------ C21
\* C21: delete_upstream tests its index again under the write lock. An
\* index that is no longer below the length of upstream_addresses leaves
\* both lists as they are; an index in range moves exactly the address at
\* that index from upstream_addresses to dead_addresses and keeps every
\* other address where it was, as sets.
C21_Revalidated ==
    [][\A s \in Sessions :
          (pc[s] = "delete_dead" /\ pc'[s] # "delete_dead") =>
             LET idx == sel[s][1]
             IN  IF idx >= Len(upstream_addresses)
                 THEN UNCHANGED <<upstream_addresses, dead_addresses>>
                 ELSE LET ip == upstream_addresses[idx + 1]
                      IN  /\ Alive' = Alive \ {ip}
                          /\ Dead' = Dead \cup {ip}
                          /\ Len(upstream_addresses') = Len(upstream_addresses) - 1
                          /\ Len(dead_addresses') = Len(dead_addresses) + 1]_vars

\* A session holds the write lock inside delete_upstream with an index
\* that another deletion has made stale: the list is not empty, and the
\* index is past its end.
C21_Witness ==
    \E s \in Sessions :
        /\ pc[s] = "delete_dead"
        /\ upstream_lock.writer = s
        /\ upstream_addresses # <<>>
        /\ sel[s][1] >= Len(upstream_addresses)

\* SpecLimit: concurrent connection tasks of clients behind two addresses
\* against the admission check and the reset timer, with rate limiting
\* on and upstreams that always serve; the health checker stays asleep.
\* A client sends one well-formed request on a connection and keeps the
\* connection open after the answer, so that a connection ends with a
\* 429 only.  The history of the requests written upstream is kept.
first_request(s) ==
    read_from_stream(s) /\ read_result'[s] = CodecOk /\ client_rx[s] = <<>>

InitLimit ==
    \E max \in 1..MaxThreshold :
        /\ main_pc = "accept"
        /\ options_upstream = Upstreams
        /\ max_requests_per_minute = max
        /\ upstream_addresses = Upstreams
        /\ hc_pc = "sleep"
        /\ mode = [ip \in Addrs |-> "ok"]
        /\ Idle
        /\ Tracked(ClientIPs)

NextLimit ==
    \/ \E s \in Sessions, ip \in ClientIPs : Accept(s, ip)
    \/ \E s \in Sessions : get_random_upstream_lock(s)
    \/ \E s \in Sessions : get_random_upstream(s)
    \/ \E s \in Sessions : connect_to_upstream(s)
    \/ \E s \in Sessions : first_request(s)
    \/ \E s \in Sessions : read_request(s)
    \/ \E s \in Sessions : Admission(s)
    \/ \E s \in Sessions : forward(s)
    \/ \E s \in Sessions : relay(s)
    \/ requests_counter_timer

SpecLimit == InitLimit /\ [][NextLimit]_vars

\* ------------------------------------------------------------------ C22
\* C22: with rate limiting on, the counter of a client IP is the number
\* of well-formed requests from that IP, over all its concurrent
\* connections, that reached the admission check since the last reset:
\* each admission check adds exactly one to the counter of the session's
\* client IP and leaves every other counter as it is, and only the reset
\* takes anything away (checked under SpecLimit).
C22_Linearized ==
    /\ [](\A ip \in ClientIPs : Count(requests_counter, ip) = window[ip])
    /\ [](DOMAIN requests_counter \subseteq ClientIPs)
    /\ [][\A s \in Sessions :
            (pc[s] = "limit" /\ pc'[s] # "limit") =>
               /\ Count(requests_counter', client_ip[s]) =
                     Count(requests_counter, client_ip[s]) + 1
               /\ \A ip \in ClientIPs \ {client_ip[s]} :
                     Count(requests_counter', ip) = Count(requests_counter, ip)]_vars
    /\ [][(\E ip \in ClientIPs :
               Count(requests_counter', ip) < Count(requests_counter, ip))
            => requests_counter' = <<>>]_vars

\* C22 witness: two connections of one client were counted in the same
\* window, one admitted and not yet forwarded, the other being rejected.
C22_Witness ==
    \E s, t \in Sessions :
        /\ s # t
        /\ client_ip[s] = client_ip[t]
        /\ pc[s] = "forward"
        /\ pc[t] = "reject"
        /\ Count(requests_counter, client_ip[s]) = max_requests_per_minute + 1

\* ------------------------------------------------------------------ C23
\* The requests of client ip that passed the admission check and are not
\* yet written to the upstream.
Unwritten(ip) ==
    Cardinality({s \in Sessions : client_ip[s] = ip /\ pc[s] = "forward"})

\* The requests of ip forwarded since the last reset, and those about to
\* be, are among the first max_requests_per_minute checked since then.
WithinQuota(ip) ==
    sent[ip] + Unwritten(ip) <=
        IF window[ip] < max_requests_per_minute THEN window[ip]
        ELSE max_requests_per_minute

\* A step of requests_counter_timer that clears something.
Reset ==
    /\ requests_counter' = <<>>
    /\ sent' = [ip \in DOMAIN sent |-> 0]
    /\ requests_counter # <<>> \/ sent # sent'

\* C23 as stated: between two consecutive resets at most
\* max_requests_per_minute requests of one client IP are forwarded to
\* upstreams, over all its concurrent sessions.
C23_AtMostNForwarded ==
    \A ip \in DOMAIN sent : sent[ip] <= max_requests_per_minute

\* C23 as amended: between two consecutive resets at most
\* max_requests_per_minute requests of one client IP pass the admission
\* check, over all its concurrent sessions; and at most that many are
\* forwarded in a window that starts with no request of that IP admitted
\* and not yet written to its upstream.
C23_AtMostNAdmitted ==
    /\ [][\A s \in Sessions :
            (pc[s] = "limit" /\ pc'[s] = "forward") =>
               window'[client_ip[s]] <= max_requests_per_minute]_vars
    /\ [][\A ip \in DOMAIN sent :
            (\/ WithinQuota(ip) /\ ~Reset
             \/ Reset /\ Unwritten(ip) = 0)
               => WithinQuota(ip)']_vars
    /\ [](\A ip \in DOMAIN sent :
            WithinQuota(ip) => sent[ip] <= max_requests_per_minute)

\* C23 witness: the quota of a window was forwarded for one client while
\* another connection of that client is being rejected.
C23_Witness ==
    \E ip \in DOMAIN sent, t \in Sessions :
        /\ WithinQuota(ip)
        /\ sent[ip] = max_requests_per_minute
        /\ client_ip[t] = ip
        /\ pc[t] = "reject"

\* ------------------------------------------------------------------ C24
\* The client of session s has closed the connection with no partial
\* data, or reading from it has failed.
ClientLeft(s) ==
    \/ read_result[s].kind = "IncompleteRequest" /\ read_result[s].bytes = 0
    \/ read_result[s].kind = "ConnectionError"

\* C24: when the client closes with no partial data, or reading from the
\* client fails, the session ends without a response (no 503), forwards
\* nothing, and leaves the alive and dead lists and the counters as they
\* are.
C24_SilentClose ==
    [][\A s \in Sessions :
          (pc[s] = "match" /\ ClientLeft(s) /\ pc'[s] # "match") =>
             /\ pc'[s] = "closed"
             /\ client_rx'[s] = client_rx[s]
             /\ upstream_tx'[s] = upstream_tx[s]
             /\ UNCHANGED <<upstream_addresses, dead_addresses,
                            requests_counter>>]_vars

\* C24 witness: a session has ended without having written anything to
\* its client, while a counter is above zero.
C24_Witness ==
    \E s \in Sessions :
        /\ pc[s] = "closed"
        /\ client_ip[s] # ""
        /\ client_rx[s] = <<>>
        /\ requests_counter # <<>>

\* ------------------------------------------------------------------ C25
\* A session is in the forwarding loop of handle_connection.
InLoop(s) ==
    pc[s] \in {"read", "match", "limit", "reject", "forward", "response"}

\* C25: failover happens only at the start of a session.  A session enters
\* connect_to_upstream only when it is accepted and stays inside it only by
\* going round its loop; once it is in the forwarding loop none of its
\* steps changes upstream_addresses or dead_addresses, and it stays in the
\* loop until it closes.  The two lists are changed only by
\* delete_upstream inside connect_to_upstream and by the health checker
\* under its write lock.
C25_FailoverAtStart ==
    /\ [][\A s \in Sessions :
            (InLoop(s) /\ pc'[s] # pc[s]) =>
               /\ UNCHANGED <<upstream_addresses, dead_addresses>>
               /\ pc'[s] = "closed" \/ InLoop(s)']_vars
    /\ [][\A s \in Sessions :
            (pc'[s] = "select" /\ pc[s] # "select") =>
               pc[s] \in {"closed", "delete_dead"}]_vars
    /\ [][(upstream_addresses' # upstream_addresses
             \/ dead_addresses' # dead_addresses) =>
               \/ \E s \in Sessions :
                     /\ pc[s] = "delete_dead"
                     /\ pc'[s] # "delete_dead"
                     /\ upstream_lock.writer = s
               \/ /\ upstream_lock.writer = HC
                  /\ UNCHANGED pc]_vars

\* C25 witness: a session that had relayed a response lost its upstream,
\* answered 502 and is closed, and the address that failed it is still
\* listed alive with nothing marked dead.
C25_Witness ==
    \E s \in Sessions :
        /\ pc[s] = "closed"
        /\ Len(client_rx[s]) = 2
        /\ client_rx[s][1].status = 200
        /\ client_rx[s][2] = make_http_error(502)
        /\ mode[client_rx[s][1].origin] = "refuse"
        /\ client_rx[s][1].origin \in Alive
        /\ Dead = {}

\* SpecKeep: SpecAB's upstreams (A refuses every connection, B always
\* serves) and health checker, with concurrent connections that are kept
\* open: a client sends well-formed requests only and does not hang up,
\* so that a connection ends only when no upstream is left for it.
well_formed(s) == read_from_stream(s) /\ read_result'[s] = CodecOk

NextKeep ==
    \/ \E s \in Sessions : Accept(s, "c1")
    \/ \E s \in Sessions : Failover(s)
    \/ \E s \in Sessions : well_formed(s)
    \/ \E s \in Sessions : read_request(s)
    \/ \E s \in Sessions : forward(s)
    \/ \E s \in Sessions : relay(s)
    \/ HealthCheck

SpecKeep == InitAB /\ [][NextKeep]_vars

\* ------------------------------------------------------------------ C26
\* C26: a session uses one upstream connection for its whole lifetime.
\* Its upstream socket is set by its own successful connect and stays as
\* it is until the session closes; every request it forwards is written
\* to that socket, also after the address has been moved to
\* dead_addresses; and a write of one session is a write on its own
\* socket only, never on another session's.
C26_OneUpstreamConn ==
    /\ [](\A s \in Sessions :
            InLoop(s) =>
               /\ upstream_conn[s] \in Addrs
               /\ \A k \in 1..Len(upstream_tx[s]) :
                     upstream_tx[s][k].to = upstream_conn[s])
    /\ [][\A s \in Sessions :
            upstream_conn'[s] # upstream_conn[s] =>
               \/ pc[s] = "connect" /\ upstream_conn'[s] = sel[s][2]
                                    /\ upstream_conn[s] = ""
               \/ upstream_conn'[s] = "" /\ pc'[s] \in {"closed", "select"}]_vars
    /\ [][\A s \in Sessions :
            upstream_tx'[s] # upstream_tx[s] =>
               \/ /\ pc[s] = "forward"
                  /\ upstream_tx'[s] =
                        Append(upstream_tx[s],
                               [to |-> upstream_conn[s],
                                req |-> Last(upstream_tx'[s]).req])
                  /\ \A t \in Sessions \ {s} : upstream_tx'[t] = upstream_tx[t]
               \/ pc[s] = "closed" /\ upstream_tx'[s] = <<>>]_vars

\* C26 witness: a session has written two requests to the upstream it
\* connected to at its start and waits for the second response, and that
\* address is now in dead_addresses.
C26_Witness ==
    \E s \in Sessions :
        /\ pc[s] = "response"
        /\ Len(upstream_tx[s]) = 2
        /\ upstream_conn[s] \in Dead
        /\ upstream_tx[s][2].to = upstream_conn[s]

\* ------------------------------------------------------------------ C27
\* C27: the Mutex of requests_counter is never held across a write to a
\* client: while a session is sending its 429 the Mutex is free, so that
\* the admission checks of other sessions and the reset timer can run.
C27_NoLockAcrossSend ==
    \A s \in Sessions : pc[s] = "reject" => counter_lock = NoTask

\* ------------------------------------------------------------------ C28
\* SpecLocks: the three locks under contention.  Concurrent connection
\* tasks fail over (A refuses every connection, B always serves) and are
\* admitted or rejected beside the health checker and the reset timer; a
\* client sends one well-formed request on a connection and keeps it
\* open.  The scheduling is the runtime's: a task that holds a lock runs
\* on to its release (a connect, a probe and a write to a client return),
\* a task waiting for a lock gets it if it falls free again and again,
\* and a reader that arrives while a writer is queued waits behind it
\* (tokio's RwLock queues its waiters in order).  Clients need not
\* connect and the timers need not fire.
get_random_upstream_queued(s) ==
    get_random_upstream_lock(s) /\ \A t \in Sessions : pc[t] # "delete"

InitLocks ==
    \E max \in 1..MaxThreshold :
        Boot(max, [ip \in Addrs |-> IF ip = "A" THEN "refuse" ELSE "ok"])

NextLocks ==
    \/ \E s \in Sessions : Accept(s, "c1")
    \/ \E s \in Sessions : get_random_upstream_queued(s)
    \/ \E s \in Sessions : get_random_upstream(s)
    \/ \E s \in Sessions : connect_to_upstream(s)
    \/ \E s \in Sessions : delete_upstream_lock(s)
    \/ \E s \in Sessions : delete_upstream(s)
    \/ \E s \in Sessions : no_upstream(s)
    \/ \E s \in Sessions : first_request(s)
    \/ \E s \in Sessions : read_request(s)
    \/ \E s \in Sessions : Admission(s)
    \/ \E s \in Sessions : forward(s)
    \/ \E s \in Sessions : relay(s)
    \/ requests_counter_timer
    \/ HealthCheck

\* The steps of a connection task that take or release a lock.
LockSteps(s) ==
    \/ get_random_upstream_queued(s)
    \/ get_random_upstream(s)
    \/ delete_upstream_lock(s)
    \/ delete_upstream(s)
    \/ check_limit(s)
    \/ reject(s)

FairnessLocks ==
    /\ \A s \in Sessions : SF_vars(LockSteps(s))
    /\ WF_vars(filter_alive_start \/ filter_alive_probe \/ filter_alive_finish)

SpecLocks == InitLocks /\ [][NextLocks]_vars /\ FairnessLocks

\* Where a connection task waits for a lock: the read lock, the write
\* lock of upstream_addresses, that of dead_addresses, the counter Mutex.
LockWaits == {"select", "delete", "delete_dead", "limit"}

\* The locks are taken in one order: dead_addresses is locked only by the
\* task that holds the write lock of upstream_addresses, and the holder
\* of the counter Mutex holds no other lock and waits for none.
LockOrder ==
    /\ dead_lock # NoTask => upstream_lock.writer = dead_lock
    /\ \A s \in Sessions :
          /\ pc[s] = "delete_dead" =>
                upstream_lock.writer = s /\ dead_lock = NoTask
          /\ counter_lock = s =>
                /\ pc[s] = "reject"
                /\ upstream_lock.writer # s
                /\ s \notin upstream_lock.readers
                /\ dead_lock # s
    /\ hc_pc = "lock_dead" => upstream_lock.writer = HC /\ dead_lock = NoTask
    /\ upstream_lock.writer # NoTask => upstream_lock.readers = {}

\* C28: the locks of upstream_addresses, dead_addresses and
\* requests_counter never deadlock.  No task waits for a lock whose holder
\* waits for a lock in turn; and when every probe and every write to a
\* client completes, every lock is released again and again and every
\* task waiting for a lock gets it.
C28_NoDeadlock ==
    /\ []LockOrder
    /\ \A s \in Sessions : []<>(pc[s] \notin LockWaits)
    /\ []<>(hc_pc # "lock_dead")
    /\ []<>(upstream_lock.writer = NoTask)
    /\ []<>(dead_lock = NoTask)
    /\ []<>(counter_lock = NoTask)

\* C28 witness: the health checker holds both write locks in the middle
\* of a pass while one connection task waits for the write lock and
\* another for the read lock.
C28_Witness ==
    \E s, t \in Sessions :
        /\ pc[s] = "delete"
        /\ pc[t] = "select"
        /\ hc_pc = "probe"
        /\ upstream_lock.writer = HC
        /\ dead_lock = HC

====
